---- MODULE Spec2Model ----
(***************************************************************************)
(* Model of api/analyze-haiku.js: the per-ticker analysis endpoint.        *)
(*                                                                         *)
(* handler(req, res) is an async function.  Its only suspension point is   *)
(* the await of client.messages.create (line 122); everything between two *)
(* suspension points runs to completion on the JavaScript event loop.  The *)
(* model therefore has one action for the invocation up to the first await *)
(* (or up to the response), and one action per way the awaited call can    *)
(* complete, each running the continuation up to the next await (or up to  *)
(* the response).                                                          *)
(*                                                                         *)
(* Text is modelled as a sequence of tokens.  The tokens are the units the *)
(* regular expressions and JSON.parse of lines 135-143 tell apart: a brace,*)
(* a triple backtick (FENCE), the word json, a newline (NL), a blank, a    *)
(* word of prose and the member list of a JSON object.                     *)
(***************************************************************************)
EXTENDS Integers, Sequences, FiniteSets, TLC

VARIABLES
    req,          \* the request: method and body (tickers, technical_data)
    pc,           \* "start", "await" (suspended at line 122), "done"
    i,            \* the loop variable of line 52 (0-based, as in the code)
    signals,      \* the signals array of line 50
    gatewayLog,   \* what the LLM gateway saw: calls started and completed
    prompts,      \* the prompts sent to the gateway, in order
    res,          \* the responses sent through res, in order
    uncaught,     \* message of an exception that left handler, or "none"
    responseText, \* the reply text of line 132, <<>> before any reply
    sample        \* parser study: a JSON object and the reply that wraps it

vars ==
    <<req, pc, i, signals, gatewayLog, prompts, res, uncaught, responseText,
      sample>>

\* Largest number of entries of tickers and of technical_data in a request.
MaxTickers == 3

\* Largest number of prose tokens before, and after, the JSON in a reply.
MaxProse == 2

-----------------------------------------------------------------------------
(* JavaScript values of the request body *)

Undefined == [kind |-> "undefined", items |-> <<>>]
NonArray(k) == [kind |-> k, items |-> <<>>]
Arr(s) == [kind |-> "array", items |-> s]

\* !v of lines 34 and 40: undefined, null and "" are falsy; a non-empty
\* string, an object and an array (also the empty one) are truthy.
Truthy(v) == v.kind \notin {"undefined", "null", "emptystring"}

\* Array.isArray
IsArray(v) == v.kind = "array"

\* v.length of an array
Length(v) == Len(v.items)

\* v[k] for a 0-based index k: undefined beyond the end
HasIndex(v, k) == k + 1 \in DOMAIN v.items
At(v, k) == v.items[k + 1]

-----------------------------------------------------------------------------
(* Technical-data records *)

\* The properties of a record that the prompt reads (lines 59-91).
NumericFields ==
    {"current_price", "rsi", "macd", "macd_signal", "macd_histogram",
     "sma_20", "sma_50", "bb_upper", "bb_lower", "volume_ratio",
     "technical_score"}
Fields == NumericFields \cup {"days_until_earnings", "score_reasons", "company"}

\* A record: an object with the properties in has, or a null array entry.
Rec(h) == [isObject |-> TRUE, has |-> h]
NullRec == [isObject |-> FALSE, has |-> {}]
FullRec == Rec(Fields)
Without(f) == Rec(Fields \ {f})

\* The records requests are drawn from: the complete one, one without a
\* number the prompt embeds as it is, one without a number and one without
\* a list the prompt calls a method on, and a null entry.
RecordSet ==
    {FullRec, Without("current_price"), Without("macd"),
     Without("score_reasons"), NullRec}

-----------------------------------------------------------------------------
(* Prompt Builder, lines 59-119 *)

\* ${techData.f} in the template literal: an absent property is the text
\* "undefined".
Interpolate(rec, f) == IF f \in rec.has THEN "number" ELSE "undefined"

\* (currentPrice * 1.10).toFixed(2), line 60: undefined * 1.10 is NaN and
\* NaN.toFixed(2) is the text "NaN".
OtmStrike(rec) == IF "current_price" \in rec.has THEN "fixed2" ELSE "NaN"

\* techData.days_until_earnings || 'Unknown (safe)', line 88
DaysUntilEarnings(rec) ==
    IF "days_until_earnings" \in rec.has THEN "number" ELSE "Unknown (safe)"

\* The properties on which the prompt calls a method: .toFixed(4) on lines
\* 80-82 and .join('; ') on line 91.  Calling a method on undefined raises
\* a TypeError.
MethodCallFields == {"macd", "macd_signal", "macd_histogram", "score_reasons"}

\* Whether lines 59-119 raise for technical_data[k]: reading current_price
\* of an undefined or null entry (line 59), or a method call on an absent
\* property.
PromptThrows(td, k) ==
    \/ ~HasIndex(td, k)
    \/ ~At(td, k).isObject
    \/ MethodCallFields \ At(td, k).has /= {}

\* The rendering of every value the template embeds, for a record on which
\* building the prompt does not raise.
RenderPrompt(ticker, rec) ==
    [ticker |-> ticker,
     otmStrike |-> OtmStrike(rec),
     days_until_earnings |-> DaysUntilEarnings(rec),
     score_reasons |-> "joined",
     numeric |-> [f \in NumericFields |->
                    IF f \in {"macd", "macd_signal", "macd_histogram"}
                    THEN "fixed4"
                    ELSE Interpolate(rec, f)]]

-----------------------------------------------------------------------------
(* Response Parser, lines 132-143 *)

\* Member lists of a JSON object, each one token, with the properties of
\* the object that the handler reads afterwards.
Num(n) == [kind |-> "number", val |-> n]
NoScore == [kind |-> "undefined", val |-> 0]
TextScore == [kind |-> "text", val |-> 0]

Members ==
    [m_strongbuy9 |-> [ticker |-> "AAPL", signal |-> "STRONG BUY", score |-> Num(9)],
     m_buy7       |-> [ticker |-> "AAPL", signal |-> "BUY", score |-> Num(7)],
     m_hold7      |-> [ticker |-> "MSFT", signal |-> "HOLD", score |-> Num(7)],
     m_avoid0     |-> [ticker |-> "AAPL", signal |-> "AVOID", score |-> Num(0)],
     m_sell       |-> [ticker |-> "AAPL", signal |-> "SELL", score |-> NoScore],
     m_buytext    |-> [ticker |-> "AAPL", signal |-> "BUY", score |-> TextScore],
     m_option     |-> [ticker |-> "undefined", signal |-> "undefined", score |-> NoScore]]
MemberTokens == DOMAIN Members

Whitespace == {" ", "NL"}

RECURSIVE RemoveJsonFences(_)
\* line 136: removes every triple backtick followed by json, with the
\* newline after it when there is one
RemoveJsonFences(s) ==
    IF s = <<>> THEN <<>>
    ELSE IF Len(s) >= 2 /\ s[1] = "FENCE" /\ s[2] = "json"
         THEN IF Len(s) >= 3 /\ s[3] = "NL"
              THEN RemoveJsonFences(SubSeq(s, 4, Len(s)))
              ELSE RemoveJsonFences(SubSeq(s, 3, Len(s)))
         ELSE <<s[1]>> \o RemoveJsonFences(Tail(s))

RECURSIVE RemoveFences(_)
\* line 137: removes every remaining triple backtick, with the newline
\* after it when there is one
RemoveFences(s) ==
    IF s = <<>> THEN <<>>
    ELSE IF s[1] = "FENCE"
         THEN IF Len(s) >= 2 /\ s[2] = "NL"
              THEN RemoveFences(SubSeq(s, 3, Len(s)))
              ELSE RemoveFences(Tail(s))
         ELSE <<s[1]>> \o RemoveFences(Tail(s))

\* .trim(), line 138
Trim(s) ==
    LET keep == {k \in DOMAIN s : s[k] \notin Whitespace}
    IN  IF keep = {} THEN <<>>
        ELSE SubSeq(s, CHOOSE k \in keep : \A j \in keep : k <= j,
                       CHOOSE k \in keep : \A j \in keep : k >= j)

\* lines 135-138
CleanResponse(text) == Trim(RemoveFences(RemoveJsonFences(text)))

\* cleanedResponse.match(...), line 140: an opening brace, any characters
\* (greedy), a closing brace: from the leftmost opening brace to the last
\* closing brace after it.  <<>> stands for null, the matched text never
\* being empty.
Match(s) ==
    LET opens == {k \in DOMAIN s : s[k] = "{"}
        closes == {k \in DOMAIN s : s[k] = "}"}
        first == CHOOSE k \in opens : \A j \in opens : k <= j
        last == CHOOSE k \in closes : \A j \in closes : k >= j
    IN  IF opens = {} \/ closes = {} THEN <<>>
        ELSE IF first < last THEN SubSeq(s, first, last) ELSE <<>>

\* The text without the whitespace JSON allows between its tokens.
Compact(s) == SelectSeq(s, LAMBDA t : t \notin Whitespace)

RECURSIVE IsJsonObject(_)
\* The grammar JSON.parse accepts here, on compact text:
\*   object ::= "{" "}"  |  "{" members "}"  |  "{" members object "}"
\* (the last form: the members end with the key of a nested object).
IsJsonObject(s) ==
    /\ Len(s) >= 2
    /\ s[1] = "{"
    /\ s[Len(s)] = "}"
    /\ LET inner == SubSeq(s, 2, Len(s) - 1)
       IN  \/ inner = <<>>
           \/ /\ inner[1] \in MemberTokens
              /\ \/ Len(inner) = 1
                 \/ IsJsonObject(Tail(inner))

\* JSON.parse(jsonMatch[0]), line 143: raises a SyntaxError on text that is
\* not JSON; otherwise the object, here its compact text.
JsonParseThrows(s) == ~IsJsonObject(Compact(s))
JsonParse(s) == Compact(s)

\* The properties of a parsed object: those of its own member list.
Props(obj) ==
    IF Len(obj) >= 3 /\ obj[2] \in MemberTokens
    THEN Members[obj[2]]
    ELSE Members["m_option"]

-----------------------------------------------------------------------------
(* Signals, lines 142-170 *)

\* An entry of the signals array.  src is the identity of the object: the
\* loop index whose iteration created it.  Properties an object lacks are
\* "undefined".
Signal(src, ticker, signal, score, error, technicalScore, company) ==
    [src |-> src, ticker |-> ticker, signal |-> signal, score |-> score,
     error |-> error, technicalScore |-> technicalScore, company |-> company]

\* lines 154-159 and 164-169
ErrorSignal(src, ticker, message) ==
    Signal(src, ticker, "ERROR", Num(0), message, "undefined", "undefined")

\* lines 143-149: the parsed analysis with technicalScore and company added
Analysis(src, ticker, rec, obj) ==
    Signal(src, Props(obj).ticker, Props(obj).signal, Props(obj).score,
           "undefined", Interpolate(rec, "technical_score"),
           IF "company" \in rec.has THEN "company" ELSE ticker)

\* Faulty variant: an unparseable reply leaves no entry.
OnNoMatchDropped(sigs, src, ticker) == sigs

\* lines 152-159: the reply holds no brace-delimited text
OnNoMatch(sigs, src, ticker) ==
    Append(sigs, ErrorSignal(src, ticker, "Could not parse AI response"))

\* Faulty variant: the catch swallows the error without recording a signal.
OnCatchSilent(sigs, src, ticker, message) == sigs

\* lines 162-169: the catch of the inner try
OnCatch(sigs, src, ticker, message) ==
    Append(sigs, ErrorSignal(src, ticker, message))

\* lines 132-170 for a call that resolved with the text reply: the signals
\* array after the iteration.
OnResolve(sigs, src, ticker, rec, text) ==
    LET jsonMatch == Match(CleanResponse(text))
    IN  IF jsonMatch = <<>>
        THEN OnNoMatch(sigs, src, ticker)
        ELSE IF JsonParseThrows(jsonMatch)
             THEN OnCatch(sigs, src, ticker, "SyntaxError")
             ELSE Append(sigs, Analysis(src, ticker, rec, JsonParse(jsonMatch)))

-----------------------------------------------------------------------------
(* Aggregator, lines 173-190 *)

\* (x.score || 0): undefined and 0 are falsy, a non-empty text is truthy
ScoreOrZero(x) ==
    IF x.score.kind = "undefined" THEN Num(0) ELSE x.score

\* Faulty variant: the comparator with its operands swapped (lowest first).
CompareAscending(a, b) ==
    IF ScoreOrZero(a).kind = "text" \/ ScoreOrZero(b).kind = "text"
    THEN [nan |-> TRUE, val |-> 0]
    ELSE [nan |-> FALSE, val |-> ScoreOrZero(a).val - ScoreOrZero(b).val]

\* The comparator of line 174, (b.score || 0) - (a.score || 0): a number,
\* or NaN when an operand is a text that is not a number.
Compare(a, b) ==
    IF ScoreOrZero(a).kind = "text" \/ ScoreOrZero(b).kind = "text"
    THEN [nan |-> TRUE, val |-> 0]
    ELSE [nan |-> FALSE, val |-> ScoreOrZero(b).val - ScoreOrZero(a).val]

\* Array.prototype.sort takes a NaN from the comparator as +0.
SortCompare(a, b) == IF Compare(a, b).nan THEN 0 ELSE Compare(a, b).val

\* Array.prototype.sort, as Node's engine V8 carries it out on an array of
\* fewer than 64 elements: the run the array starts with is found (and
\* reversed when strictly descending), then every later element is put in
\* place by binary insertion.  The sort is stable; under a comparator that
\* is not consistent (a NaN counts as equal to everything) the language
\* leaves the order to the implementation, and this is what it does.

RECURSIVE RunLength(_, _, _)
\* The length of the run s starts with; k is the next index to look at.
RunLength(s, k, descending) ==
    IF k > Len(s) THEN Len(s)
    ELSE IF descending = (SortCompare(s[k], s[k - 1]) < 0)
         THEN RunLength(s, k + 1, descending)
         ELSE k - 1

Reverse(s) == [k \in DOMAIN s |-> s[Len(s) + 1 - k]]

RECURSIVE InsertPosition(_, _, _, _)
\* Binary search for the place of pivot among s[left], ..., s[right - 1].
InsertPosition(s, pivot, left, right) ==
    IF left < right
    THEN LET mid == left + ((right - left) \div 2)
         IN  IF SortCompare(pivot, s[mid]) < 0
             THEN InsertPosition(s, pivot, left, mid)
             ELSE InsertPosition(s, pivot, mid + 1, right)
    ELSE left

RECURSIVE BinaryInsertionSort(_, _)
\* s[1..start-1] is in order; the elements from start on are inserted.
BinaryInsertionSort(s, start) ==
    IF start > Len(s) THEN s
    ELSE LET pivot == s[start]
             at == InsertPosition(s, pivot, 1, start)
         IN  BinaryInsertionSort(
                 SubSeq(s, 1, at - 1) \o <<pivot>> \o SubSeq(s, at, start - 1)
                     \o SubSeq(s, start + 1, Len(s)),
                 start + 1)

\* signals.sort((a, b) => (b.score || 0) - (a.score || 0)), line 174
Sort(s) ==
    IF Len(s) < 2 THEN s
    ELSE LET descending == SortCompare(s[2], s[1]) < 0
             n == RunLength(s, 3, descending)
             run == IF descending
                    THEN Reverse(SubSeq(s, 1, n)) \o SubSeq(s, n + 1, Len(s))
                    ELSE s
         IN  BinaryInsertionSort(run, n + 1)

\* Faulty variant: BUY counted by substring, so STRONG BUY counts as BUY too.
CountLabelLoose(sigs, label) ==
    Len(SelectSeq(sigs, LAMBDA x :
            x.signal = label \/ (label = "BUY" /\ x.signal = "STRONG BUY")))

\* signals.filter(s => s.signal === label).length, lines 183-187
CountLabel(sigs, label) == Len(SelectSeq(sigs, LAMBDA x : x.signal = label))

\* lines 181-188
Summary(sigs) ==
    [total |-> Len(sigs),
     strongBuy |-> CountLabel(sigs, "STRONG BUY"),
     buy |-> CountLabel(sigs, "BUY"),
     hold |-> CountLabel(sigs, "HOLD"),
     avoid |-> CountLabel(sigs, "AVOID"),
     errors |-> CountLabel(sigs, "ERROR")]

-----------------------------------------------------------------------------
(* Responses *)

\* A response: the status and the properties of the JSON body; hasBody is
\* FALSE for res.status(200).end() of line 25.
Response(status, hasBody, success, error, message, sigs, cents) ==
    [status |-> status, hasBody |-> hasBody, success |-> success,
     error |-> error, message |-> message, signals |-> sigs,
     summary |-> Summary(sigs), cost_cents |-> cents]

\* line 25
PreflightResponse == Response(200, FALSE, FALSE, "undefined", "undefined", <<>>, 0)
\* line 29
MethodNotAllowed ==
    Response(405, TRUE, FALSE, "Method not allowed", "undefined", <<>>, 0)
\* lines 35-37 and 41-43
InvalidRequest(error) == Response(400, TRUE, FALSE, error, "undefined", <<>>, 0)
\* lines 176-195; the cost estimate of line 189 is 0.02 a ticker
Success(sigs, n) == Response(200, TRUE, TRUE, "undefined", "undefined", sigs, 2 * n)
\* lines 199-203
AnalysisFailed(message) ==
    Response(500, TRUE, FALSE, "Analysis failed", message, <<>>, 0)

-----------------------------------------------------------------------------
(* Requests and replies the model draws from *)

Methods == {"OPTIONS", "GET", "POST"}

TickerNames == <<"AAPL", "MSFT", "NVDA", "TSLA", "AMZN">>

RECURSIVE SeqsUpTo(_, _)
\* The sequences over S of length at most n.
SeqsUpTo(S, n) ==
    IF n = 0 THEN {<<>>}
    ELSE SeqsUpTo(S, n - 1) \cup
         {Append(q, x) : q \in {r \in SeqsUpTo(S, n - 1) : Len(r) = n - 1}, x \in S}

\* Values of req.body.tickers: absent, not an array, or an array.
TickerValues ==
    {Undefined, NonArray("null"), NonArray("string"), NonArray("object")}
        \cup {Arr(SubSeq(TickerNames, 1, n)) : n \in 0..MaxTickers}

\* Values of req.body.technical_data: absent, not an array, or an array.
TechnicalDataValues ==
    {Undefined, NonArray("object")}
        \cup {Arr(q) : q \in SeqsUpTo(RecordSet, MaxTickers)}

\* req.body is undefined when the request carries no body.
NoBody(m) ==
    [method |-> m, hasBody |-> FALSE, tickers |-> Undefined,
     technical_data |-> Undefined]

Requests ==
    {NoBody(m) : m \in Methods}
        \cup {[method |-> "POST", hasBody |-> TRUE, tickers |-> t,
               technical_data |-> d] :
                 t \in TickerValues, d \in TechnicalDataValues}

\* A JSON object with the member list m.
Json(m) == <<"{", m, "}">>
\* A JSON object with a nested object, as the callOption of line 104.
JsonNested(m, n) == <<"{", m, "{", n, "}", "}">>
\* The reply wrapped in a markdown fence.
Fenced(j) == <<"FENCE", "json", "NL">> \o j \o <<"NL", "FENCE">>
\* The reply with prose around it.
InProse(before, j, after) == before \o <<" ">> \o j \o <<" ">> \o after

\* Reply texts of the gateway (message.content[0].text, line 132).
ReplyTexts ==
    {Json("m_strongbuy9"),
     Fenced(Json("m_buy7")),
     InProse(<<"word">>, Json("m_hold7"), <<"word">>),
     JsonNested("m_avoid0", "m_option"),
     Json("m_sell"),
     Json("m_buytext"),
     <<"word", " ", "word">>,
     <<"{", "word", "}">>}

\* Parser study: a JSON object j sent raw, in a fence, or with the prose
\* before and after around it.
Sample(j, form, before, after) ==
    [json |-> j, form |-> form, before |-> before, after |-> after]
NoSample == Sample(<<>>, "none", <<>>, <<>>)

Wrap(smp) ==
    IF smp.form = "raw" THEN smp.json
    ELSE IF smp.form = "fenced" THEN Fenced(smp.json)
    ELSE InProse(smp.before, smp.json, smp.after)

JsonSamples ==
    {Json("m_strongbuy9"), Json("m_buy7"), JsonNested("m_avoid0", "m_option")}

\* Prose: words, and braces as prose may hold them.
ProseTokens == {"word", "{", "}"}
Proses == SeqsUpTo(ProseTokens, MaxProse)

Samples ==
    {Sample(j, f, <<>>, <<>>) : j \in JsonSamples, f \in {"raw", "fenced"}}
        \cup {Sample(j, "prose", ba[1], ba[2]) :
                 j \in JsonSamples,
                 ba \in {x \in Proses \X Proses : Len(x[1]) + Len(x[2]) > 0}}

\* What the gateway may reply: any of ReplyTexts, or in the parser study
\* the sample's text.
Replies == IF sample = NoSample THEN ReplyTexts ELSE {Wrap(sample)}

-----------------------------------------------------------------------------
(* handler, lines 18-205 *)

\* the negation of the test of line 34
ValidTickers(t) == Truthy(t) /\ IsArray(t)

\* Faulty variant: the test of line 40 without its Array.isArray half.
ValidTechnicalDataTruthyOnly(d) == Truthy(d)

\* the negation of the test of line 40
ValidTechnicalData(d) == Truthy(d) /\ IsArray(d)

\* Faulty variant: the loop does not advance, so a ticker is called again.
NextIndexSame(k) == k

\* i++ of line 52
NextIndex(k) == k + 1

\* An entry of the gateway log: a call started for loop index k, or the
\* call for k completed (resolved with a reply text, or rejected).
Event(ev, k, text) == [ev |-> ev, idx |-> k, text |-> text]

\* The for loop of line 52 from its test with i = k, run up to the next
\* await, or through lines 173-195 or the catch of lines 197-204 up to the
\* response.  sigs and log are the signals array and the gateway log then.
Iterate(k, sigs, log) ==
    IF k < Length(req.tickers)
    THEN IF PromptThrows(req.technical_data, k)
         THEN /\ pc' = "done"
              /\ i' = k
              /\ signals' = sigs
              /\ gatewayLog' = log
              /\ prompts' = prompts
              /\ res' = Append(res, AnalysisFailed("TypeError"))
         ELSE /\ pc' = "await"
              /\ i' = k
              /\ signals' = sigs
              /\ gatewayLog' = Append(log, Event("call", k, <<>>))
              /\ prompts' = Append(prompts,
                     RenderPrompt(At(req.tickers, k), At(req.technical_data, k)))
              /\ res' = res
    ELSE /\ pc' = "done"
         /\ i' = k
         /\ signals' = Sort(sigs)
         /\ gatewayLog' = log
         /\ prompts' = prompts
         /\ res' = Append(res, Success(Sort(sigs), Length(req.tickers)))

\* The invocation ends with the response r, before the try of line 49.
Return(r) ==
    /\ pc' = "done"
    /\ res' = Append(res, r)
    /\ UNCHANGED <<i, signals, gatewayLog, prompts>>

\* handler from its entry to its first await or to its response.
Invoke ==
    /\ pc = "start"
    /\ UNCHANGED <<req, responseText, sample>>
    /\ IF req.method = "OPTIONS"
       THEN Return(PreflightResponse) /\ UNCHANGED uncaught
       ELSE IF req.method /= "POST"
       THEN Return(MethodNotAllowed) /\ UNCHANGED uncaught
       ELSE IF ~req.hasBody
       THEN \* line 32: destructuring undefined raises, outside the try
            /\ pc' = "done"
            /\ uncaught' = "TypeError"
            /\ UNCHANGED <<i, signals, gatewayLog, prompts, res>>
       ELSE IF ~ValidTickers(req.tickers)
       THEN /\ Return(InvalidRequest("Invalid request. Please provide tickers array."))
            /\ UNCHANGED uncaught
       ELSE IF ~ValidTechnicalData(req.technical_data)
       THEN /\ Return(InvalidRequest("Invalid request. Please provide technical_data array."))
            /\ UNCHANGED uncaught
       ELSE Iterate(0, <<>>, gatewayLog) /\ UNCHANGED uncaught

\* The awaited call of line 122 resolves with a text reply; lines 132-160,
\* then the loop goes on.
GatewayResolve ==
    /\ pc = "await"
    /\ \E text \in Replies :
          /\ responseText' = text
          /\ Iterate(NextIndex(i),
                     OnResolve(signals, i, At(req.tickers, i),
                               At(req.technical_data, i), text),
                     Append(gatewayLog, Event("resolve", i, text)))
    /\ UNCHANGED <<req, uncaught, sample>>

\* The awaited call of line 122 rejects; the catch of lines 162-170, then
\* the loop goes on.
GatewayReject ==
    /\ pc = "await"
    /\ Iterate(NextIndex(i),
               OnCatch(signals, i, At(req.tickers, i), "GatewayError"),
               Append(gatewayLog, Event("reject", i, <<>>)))
    /\ UNCHANGED <<req, uncaught, responseText, sample>>

Init ==
    /\ req \in Requests
    /\ pc = "start"
    /\ i = 0
    /\ signals = <<>>
    /\ gatewayLog = <<>>
    /\ prompts = <<>>
    /\ res = <<>>
    /\ uncaught = "none"
    /\ responseText = <<>>
    /\ sample = NoSample

Next == Invoke \/ GatewayResolve \/ GatewayReject

Spec == Init /\ [][Next]_vars

\* Parser study: one request for one ticker with a complete record, whose
\* gateway call is answered with the sample's text.
ParserInit ==
    /\ req = [method |-> "POST", hasBody |-> TRUE,
              tickers |-> Arr(<<"AAPL">>), technical_data |-> Arr(<<FullRec>>)]
    /\ pc = "start"
    /\ i = 0
    /\ signals = <<>>
    /\ gatewayLog = <<>>
    /\ prompts = <<>>
    /\ res = <<>>
    /\ uncaught = "none"
    /\ responseText = <<>>
    /\ sample \in Samples

ParserNext == Invoke \/ GatewayResolve

SpecParser == ParserInit /\ [][ParserNext]_vars

-----------------------------------------------------------------------------
(* Properties *)

IsPost == req.method = "POST" /\ req.hasBody
TickersIsArray == req.tickers.kind = "array"
TechnicalDataIsArray == req.technical_data.kind = "array"
NTickers == Len(req.tickers.items)
NTechnicalData == Len(req.technical_data.items)
Done == pc = "done"

\* The positions of res holding the success response of lines 176-195.
SuccessAt == {p \in DOMAIN res : res[p].status = 200 /\ res[p].success}

\* The gateway calls started for loop index k.
CallsFor(k) == {p \in DOMAIN gatewayLog :
                  gatewayLog[p].ev = "call" /\ gatewayLog[p].idx = k}

\* The reply text cannot be parsed: no brace-delimited text, or not JSON.
Unparseable(text) ==
    \/ Match(CleanResponse(text)) = <<>>
    \/ JsonParseThrows(Match(CleanResponse(text)))

\* The gateway call for loop index k failed, or its reply cannot be parsed.
FailedAt(k) ==
    \E p \in DOMAIN gatewayLog :
        /\ gatewayLog[p].idx = k
        /\ \/ gatewayLog[p].ev = "reject"
           \/ gatewayLog[p].ev = "resolve" /\ Unparseable(gatewayLog[p].text)

\* An entry of sigs is the error signal of loop index k: its ticker, the
\* label ERROR and score 0.
HasErrorSignal(sigs, k) ==
    \E p \in DOMAIN sigs :
        /\ sigs[p].src = k
        /\ sigs[p].ticker = At(req.tickers, k)
        /\ sigs[p].signal = "ERROR"
        /\ sigs[p].score = Num(0)

\* Building the prompt raises for some loop index after k.
LaterPromptThrows(k) ==
    \E m \in (k + 1)..(NTickers - 1) : PromptThrows(req.technical_data, m)

\* C1: a POST request whose body has tickers missing or not an array, or
\* technical_data missing or not an array, is answered with status 400,
\* and no gateway call is made during the invocation.
C1_InvalidRequestRejected ==
    (IsPost /\ (~TickersIsArray \/ ~TechnicalDataIsArray))
        => /\ gatewayLog = <<>>
           /\ prompts = <<>>
           /\ Done => (Len(res) = 1 /\ res[1].status = 400)

\* C1 witness: a request with a ticker array of several entries and a
\* technical_data that is an object, not an array, answered with 400.
C1_Witness ==
    /\ IsPost /\ TickersIsArray /\ NTickers >= 2
    /\ req.technical_data.kind = "object"
    /\ Done /\ Len(res) = 1 /\ res[1].status = 400 /\ gatewayLog = <<>>

\* C2: a POST request whose tickers and technical_data are arrays of
\* different lengths is rejected with 400 before any gateway call; the
\* loop only runs on inputs of equal lengths.
C2_LengthMismatchRejected ==
    (IsPost /\ TickersIsArray /\ TechnicalDataIsArray
        /\ NTickers /= NTechnicalData)
        => /\ gatewayLog = <<>>
           /\ Done => (Len(res) = 1 /\ res[1].status = 400)

\* C3 as claimed: when the gateway call for ticker k fails or its reply
\* cannot be parsed, an ERROR signal with score 0 is recorded for k, every
\* ticker after k still gets its gateway call, and the invocation ends
\* with a 200 response.
C3_FailureIsolatedAlways200 ==
    \A k \in 0..(NTickers - 1) :
        FailedAt(k) =>
            /\ HasErrorSignal(signals, k)
            /\ Done => /\ \A j \in (k + 1)..(NTickers - 1) : CallsFor(j) /= {}
                       /\ Len(res) = 1 /\ res[1].status = 200

\* C3 amended: when the gateway call for ticker k fails or its reply
\* cannot be parsed, an ERROR signal with score 0 is recorded for k and the
\* loop goes on: every later ticker up to the first whose prompt raises
\* gets its gateway call, and the invocation ends with the 200 response,
\* holding that ERROR signal, unless the prompt of a later ticker raises,
\* and then with the 500 response.
C3_FailureIsolated ==
    \A k \in 0..(NTickers - 1) :
        FailedAt(k) =>
            /\ HasErrorSignal(signals, k)
            /\ Done =>
                /\ \A j \in (k + 1)..(NTickers - 1) :
                      (\A m \in (k + 1)..j : ~PromptThrows(req.technical_data, m))
                          => Cardinality(CallsFor(j)) = 1
                /\ Len(res) = 1
                /\ IF LaterPromptThrows(k)
                   THEN res[1] = AnalysisFailed("TypeError")
                   ELSE /\ res[1].status = 200 /\ res[1].success
                        /\ HasErrorSignal(res[1].signals, k)

\* C3 witness: the first of three calls is rejected, the second gets an
\* unparseable reply, the third is made all the same, and the response
\* is 200.
C3_Witness ==
    /\ Done /\ NTickers = 3 /\ Len(gatewayLog) = 6
    /\ gatewayLog[2].ev = "reject"
    /\ gatewayLog[4].ev = "resolve" /\ Unparseable(gatewayLog[4].text)
    /\ CallsFor(2) /= {}
    /\ Len(res) = 1 /\ res[1].status = 200
    /\ HasErrorSignal(res[1].signals, 0) /\ HasErrorSignal(res[1].signals, 1)

\* C4: for a record with a numeric field absent, building the prompt does
\* not raise, the absent field is rendered as N/A, and the ticker goes on
\* to its gateway call.
C4_AbsentFieldsRenderNA ==
    /\ \A p \in DOMAIN prompts :
          \A f \in NumericFields \ At(req.technical_data, p - 1).has :
              /\ prompts[p].numeric[f] = "N/A"
              /\ prompts[p].otmStrike /= "NaN"
    /\ \A k \in 0..(NTickers - 1) :
          (/\ Done
           /\ IsPost /\ TickersIsArray /\ TechnicalDataIsArray
           /\ \A m \in 0..k : /\ HasIndex(req.technical_data, m)
                              /\ At(req.technical_data, m).isObject
                              /\ Fields \ At(req.technical_data, m).has
                                     \subseteq NumericFields)
              => CallsFor(k) /= {}

\* C5: in every 200 response, summary.total is the length of signals and
\* each of strongBuy, buy, hold, avoid and errors is the number of
\* entries of signals with exactly that label.
C5_SummaryCounts ==
    \A p \in SuccessAt :
        LET r == res[p]
            N(label) == Cardinality({q \in DOMAIN r.signals :
                                        r.signals[q].signal = label})
        IN  /\ r.summary.total = Len(r.signals)
            /\ r.summary.strongBuy = N("STRONG BUY")
            /\ r.summary.buy = N("BUY")
            /\ r.summary.hold = N("HOLD")
            /\ r.summary.avoid = N("AVOID")
            /\ r.summary.errors = N("ERROR")

\* C5 witness: a 200 response with a STRONG BUY, a BUY and an ERROR entry.
C5_Witness ==
    \E p \in SuccessAt :
        /\ res[p].summary.total = 3
        /\ res[p].summary.strongBuy = 1
        /\ res[p].summary.buy = 1
        /\ res[p].summary.errors = 1

\* C6: gateway calls are strictly sequential in index order: the log
\* alternates call and completion, the n-th call is for index n-1 and is
\* completed before the next call starts, so at most one call is in flight
\* and no index is called twice.
C6_SequentialCalls ==
    /\ \A p \in DOMAIN gatewayLog :
          IF p % 2 = 1
          THEN /\ gatewayLog[p].ev = "call"
               /\ gatewayLog[p].idx = (p - 1) \div 2
          ELSE /\ gatewayLog[p].ev \in {"resolve", "reject"}
               /\ gatewayLog[p].idx = gatewayLog[p - 1].idx
    /\ \A k \in 0..(NTickers - 1) : Cardinality(CallsFor(k)) <= 1
    /\ (pc = "await") <=> (Len(gatewayLog) % 2 = 1)

\* C6 witness: three calls made, the first rejected, the third in flight.
C6_Witness ==
    /\ Len(gatewayLog) = 5
    /\ gatewayLog[2].ev = "reject"
    /\ gatewayLog[5] = Event("call", 2, <<>>)
    /\ pc = "await"

\* The number a score counts as: a number as itself, a missing one as 0.
ScoreValue(x) == IF x.score.kind = "number" THEN x.score.val ELSE 0
NumericOrMissing(x) == x.score.kind /= "text"

\* The entry the loop collected for index k, from what the gateway did.
Collected(k) ==
    LET e == gatewayLog[2 * k + 2]
    IN  IF e.ev = "reject"
        THEN ErrorSignal(k, At(req.tickers, k), "GatewayError")
        ELSE OnResolve(<<>>, k, At(req.tickers, k), At(req.technical_data, k),
                       e.text)[1]

\* sigs holds the collected entries, each once: as many entries as calls
\* completed, each the entry collected for its index, no index twice.
IsPermutationOfCollected(sigs) ==
    /\ Len(sigs) = Len(gatewayLog) \div 2
    /\ \A q \in DOMAIN sigs :
          /\ sigs[q].src \in 0..(Len(sigs) - 1)
          /\ sigs[q] = Collected(sigs[q].src)
    /\ \A a, b \in DOMAIN sigs : a /= b => sigs[a].src /= sigs[b].src

\* Non-increasing by score among the entries whose score counts as a
\* number, ties in input order.
SortedByScore(sigs) ==
    \A a, b \in DOMAIN sigs :
        (a < b /\ NumericOrMissing(sigs[a]) /\ NumericOrMissing(sigs[b])) =>
            /\ ScoreValue(sigs[a]) >= ScoreValue(sigs[b])
            /\ ScoreValue(sigs[a]) = ScoreValue(sigs[b])
                   => sigs[a].src < sigs[b].src

C8_UnexpectedFailureCaught ==
    /\ uncaught = "none"
    /\ (Done /\ IsPost /\ TickersIsArray /\ TechnicalDataIsArray
          /\ \E k \in 0..(NTickers - 1) : PromptThrows(req.technical_data, k))
          => res = <<AnalysisFailed("TypeError")>>

\* C9: for a JSON object J, the reply handling yields the same object for
\* J raw, J in a json fence and J within prose, and in none of the three
\* is the ticker an ERROR signal.
C9_ParserFormsAgree ==
    (sample /= NoSample /\ Done) =>
        /\ Len(res) = 1 /\ res[1].success
        /\ res[1].signals = <<Analysis(0, "AAPL", FullRec, sample.json)>>
        /\ res[1].signals[1].signal /= "ERROR"

\* C10: in every 200 response signals has as many entries as tickers: each
\* index gave exactly one entry, the parsed analysis or an ERROR signal,
\* and the response is sent only after every index was processed.
C10_OneSignalPerTicker ==
    \A p \in SuccessAt :
        /\ Len(res[p].signals) = NTickers
        /\ \A k \in 0..(NTickers - 1) :
              /\ Cardinality({q \in DOMAIN res[p].signals :
                                 res[p].signals[q].src = k}) = 1
              /\ Cardinality({q \in DOMAIN gatewayLog :
                                 /\ gatewayLog[q].idx = k
                                 /\ gatewayLog[q].ev \in {"resolve", "reject"}}) = 1
        /\ \A q \in DOMAIN res[p].signals :
              res[p].signals[q] = Collected(res[p].signals[q].src)

\* C10 witness: a 200 response for three tickers holding a parsed
\* analysis, an entry for an unparseable reply and one for a failed call.
C10_Witness ==
    \E p \in SuccessAt :
        /\ NTickers = 3 /\ Len(res[p].signals) = 3
        /\ \E q \in DOMAIN res[p].signals : res[p].signals[q].error = "undefined"
        /\ \E q \in DOMAIN res[p].signals :
              res[p].signals[q].error = "Could not parse AI response"
        /\ \E q \in DOMAIN res[p].signals : res[p].signals[q].error = "GatewayError"

====
